---- MODULE Spec2Model ----
(***************************************************************************)
(* Model of dartsim/src/SDFFeatures.cc: the construction of a dartsim      *)
(* world (skeletons, body nodes, joints, shape nodes, model frames and the *)
(* entity registries) from an SDF description.                             *)
(*                                                                         *)
(* Transforms are exact rigid motions of the integer lattice: a rotation   *)
(* is a product of quarter turns about the coordinate axes, a translation  *)
(* an integer vector, an angle a number of quarter turns.  The algebra is  *)
(* the non-commutative algebra of Eigen::Isometry3d without rounding.      *)
(***************************************************************************)
EXTENDS Integers, Sequences, FiniteSets, TLC

(***************************************************************************)
(* Bounds of the model.                                                    *)
(***************************************************************************)
\* the number of entries (models, links, joints) of a description
MaxEntities == 5

\* the number of calls a client makes on a model
MaxCalls == 5

\* the length of a plane's normal and of its sides
MaxLength == 3

(***************************************************************************)
(* Eigen: vectors, matrices, rotations, isometries.                        *)
(*                                                                         *)
(* A rotation of the lattice has one entry +1 or -1 in every column.  It   *)
(* is stored by its columns: R = <<c1, c2, c3>> with ci in {-3..-1, 1..3}  *)
(* says that R maps the i-th basis vector to Sgn(ci) times the |ci|-th     *)
(* one.  ToMatrix gives the 3x3 matrix.                                    *)
(***************************************************************************)
Dot(u, v) == u[1] * v[1] + u[2] * v[2] + u[3] * v[3]

VecAdd(u, v) == <<u[1] + v[1], u[2] + v[2], u[3] + v[3]>>

VecScale(k, u) == <<k * u[1], k * u[2], k * u[3]>>

Cross(u, v) ==
  <<u[2] * v[3] - u[3] * v[2], u[3] * v[1] - u[1] * v[3], u[1] * v[2] - u[2] * v[1]>>

Col(M, j) == <<M[1][j], M[2][j], M[3][j]>>

Transpose(M) == <<Col(M, 1), Col(M, 2), Col(M, 3)>>

MatRow(r, B) == <<Dot(r, Col(B, 1)), Dot(r, Col(B, 2)), Dot(r, Col(B, 3))>>

MatMul(A, B) == <<MatRow(A[1], B), MatRow(A[2], B), MatRow(A[3], B)>>

ZeroVector == <<0, 0, 0>>

UnitX == <<1, 0, 0>>

UnitY == <<0, 1, 0>>

UnitZ == <<0, 0, 1>>

Abs(x) == IF x < 0 THEN -x ELSE x

Sgn(x) == IF x < 0 THEN -1 ELSE 1

Basis(c) == <<IF Abs(c) = 1 THEN Sgn(c) ELSE 0,
              IF Abs(c) = 2 THEN Sgn(c) ELSE 0,
              IF Abs(c) = 3 THEN Sgn(c) ELSE 0>>

\* the signed index of a vector that is plus or minus a basis vector
SignedIndex(v) == v[1] + 2 * v[2] + 3 * v[3]

IdentityRotation == <<1, 2, 3>>

\* the product of rotation matrices
RotMul(A, B) ==
  <<Sgn(B[1]) * A[Abs(B[1])], Sgn(B[2]) * A[Abs(B[2])], Sgn(B[3]) * A[Abs(B[3])]>>

\* the signed index of the basis vector that R maps to the j-th one
Preimage(R, j) ==
  IF Abs(R[1]) = j THEN Sgn(R[1])
  ELSE IF Abs(R[2]) = j THEN 2 * Sgn(R[2])
  ELSE 3 * Sgn(R[3])

\* Matrix3d::inverse() of a rotation: its transpose
RotInverse(R) == <<Preimage(R, 1), Preimage(R, 2), Preimage(R, 3)>>

\* the j-th coordinate of R v
RotVecAt(R, v, j) ==
  IF Abs(R[1]) = j THEN Sgn(R[1]) * v[1]
  ELSE IF Abs(R[2]) = j THEN Sgn(R[2]) * v[2]
  ELSE Sgn(R[3]) * v[3]

\* rotation matrix times vector
RotVec(R, v) == <<RotVecAt(R, v, 1), RotVecAt(R, v, 2), RotVecAt(R, v, 3)>>

ToMatrix(R) == Transpose(<<Basis(R[1]), Basis(R[2]), Basis(R[3])>>)

\* Eigen::Isometry3d: x |-> R x + t
Isometry(R, t) == [R |-> R, t |-> t]

Identity == Isometry(IdentityRotation, ZeroVector)

\* Isometry3d::operator*
Mul(A, B) == Isometry(RotMul(A.R, B.R), VecAdd(A.t, RotVec(A.R, B.t)))

\* Isometry3d::inverse()
Inverse(A) ==
  LET Ri == RotInverse(A.R)
  IN Isometry(Ri, VecScale(-1, RotVec(Ri, A.t)))

\* sine and cosine of q quarter turns
Sin4(q) == CASE q % 4 = 0 -> 0 [] q % 4 = 1 -> 1 [] q % 4 = 2 -> 0 [] OTHER -> -1

Cos4(q) == CASE q % 4 = 0 -> 1 [] q % 4 = 1 -> 0 [] q % 4 = 2 -> -1 [] OTHER -> 0

\* Rodrigues' formula: the image of e under the rotation by q about the unit
\* axis a
Rotate(q, a, e) ==
  VecAdd(VecScale(Cos4(q), e),
         VecAdd(VecScale(Sin4(q), Cross(a, e)),
                VecScale((1 - Cos4(q)) * Dot(a, e), a)))

\* Eigen::AngleAxisd(q, a) for a unit axis a
AngleAxis(q, a) ==
  <<SignedIndex(Rotate(q, a, UnitX)), SignedIndex(Rotate(q, a, UnitY)),
    SignedIndex(Rotate(q, a, UnitZ))>>

Rotation(q, a) == Isometry(AngleAxis(q, a), ZeroVector)

Translation(t) == Isometry(IdentityRotation, t)

(***************************************************************************)
(* IEEE doubles of the axis limits: a finite value or an infinity.         *)
(***************************************************************************)
Finite(n) == [inf |-> FALSE, v |-> n]

Infinity == [inf |-> TRUE, v |-> 1]

Neg(x) == [inf |-> x.inf, v |-> -x.v]

IsNegative(x) == x.v < 0

(***************************************************************************)
(* dartsim (the engine the file drives): skeleton, body nodes, joints.     *)
(*                                                                         *)
(* A body node is [name, parent, joint, tf]: parent is a body node index   *)
(* or NullBody, joint the serial number of its parent joint object, tf the *)
(* pose the description declared for it (line 358), kept for reference.    *)
(* A joint object is [kind, name, q, Q, init, axes, pitch, Tp, Tc, lim]:   *)
(* q the generalized coordinates of a single-axis or universal joint, Q    *)
(* the pose held by the coordinates of a free joint, init the initial      *)
(* positions of its properties, Tp the transform from the parent body node *)
(* (parent-to-prejoint), Tc the transform from the child body node         *)
(* (child-to-postjoint).  A deleted joint object is DeletedJoint.          *)
(***************************************************************************)
NullBody == 0

DefaultPitch == 1

NoLimits == [posLower |-> Neg(Infinity), posUpper |-> Infinity,
             forceLower |-> Neg(Infinity), forceUpper |-> Infinity,
             velLower |-> Neg(Infinity), velUpper |-> Infinity,
             damping |-> 0, friction |-> 0, rest |-> 0, stiffness |-> 0]

DeletedJoint == [kind |-> "deleted"]

\* dart::dynamics::*Joint::Properties as default-constructed
DefaultJointProperties(kind) ==
  [kind |-> kind, name |-> <<<<0, "Joint">>, 0>>, q |-> <<0, 0>>, Q |-> Identity,
   init |-> <<0, 0>>, axes |-> <<UnitZ, UnitZ>>, pitch |-> DefaultPitch,
   Tp |-> Identity, Tc |-> Identity, lim |-> <<NoLimits, NoLimits>>]

\* prejoint_T_postjoint: the transform the joint's coordinates produce
JointTransform(j) ==
  CASE j.kind = "FreeJoint" -> j.Q
    [] j.kind = "BallJoint" -> j.Q
    [] j.kind = "WeldJoint" -> Identity
    [] j.kind = "RevoluteJoint" -> Rotation(j.q[1], j.axes[1])
    [] j.kind = "PrismaticJoint" -> Translation(VecScale(j.q[1], j.axes[1]))
    [] j.kind = "ScrewJoint" ->
         Mul(Rotation(j.q[1], j.axes[1]),
             Translation(VecScale(j.pitch * j.q[1], j.axes[1])))
    [] j.kind = "UniversalJoint" ->
         Mul(Rotation(j.q[1], j.axes[1]), Rotation(j.q[2], j.axes[2]))

\* Joint::getRelativeTransform: child body node relative to parent body node
RelativeTransform(j) == Mul(Mul(j.Tp, JointTransform(j)), Inverse(j.Tc))

RECURSIVE WorldTransformWithin(_, _, _, _)
\* the world transform of b along at most depth parent joints: the world
\* transform of the parent frame times the relative transform
WorldTransformWithin(bodies, joints, b, depth) ==
  Mul(IF bodies[b].parent = NullBody \/ depth <= 1
        THEN Identity
        ELSE WorldTransformWithin(bodies, joints, bodies[b].parent, depth - 1),
      RelativeTransform(joints[bodies[b].joint]))

\* BodyNode::getWorldTransform: a chain of a tree of body nodes is no longer
\* than the number of body nodes
BodyWorldTransform(bodies, joints, b) ==
  WorldTransformWithin(bodies, joints, b, Len(bodies))

\* BodyNode::getTransform(withRespectTo)
GetTransform(bodies, joints, b, wrt) ==
  Mul(Inverse(BodyWorldTransform(bodies, joints, wrt)),
      BodyWorldTransform(bodies, joints, b))

RECURSIVE BodyNodeDescendsFrom(_, _, _)
\* BodyNode::descendsFrom
BodyNodeDescendsFrom(bodies, b, some) ==
  IF some = NullBody THEN TRUE
  ELSE IF b = some THEN TRUE
  ELSE IF bodies[b].parent = NullBody THEN FALSE
  ELSE BodyNodeDescendsFrom(bodies, bodies[b].parent, some)

\* a variant that finds no body node
GetBodyNodeFindsNone(bodies, name) == NullBody

\* Skeleton::getBodyNode(name): the body node of that name, or NullBody
GetBodyNode(bodies, name) ==
  IF \E b \in 1..Len(bodies) : bodies[b].name = <<name, 0>>
    THEN CHOOSE b \in 1..Len(bodies) : bodies[b].name = <<name, 0>>
    ELSE NullBody

\* dart::common::NameManager::issueNewNameAndAdd: the name itself when it is
\* free (suffix 0), else the name with the first free numbered suffix
IssueNewName(taken, name) ==
  <<name, CHOOSE k \in 0..Cardinality(taken) :
            /\ <<name, k>> \notin taken
            /\ \A i \in 0..(k - 1) : <<name, i>> \in taken>>

BodyNames(bodies) == {bodies[b].name : b \in 1..Len(bodies)}

JointNames(bodies, joints) == {joints[bodies[b].joint].name : b \in 1..Len(bodies)}

\* SimpleFrame::getWorldTransform of the model frame [parent, rel]
FrameWorldTransform(bodies, joints, frame) ==
  IF frame.parent = NullBody
    THEN frame.rel
    ELSE Mul(BodyWorldTransform(bodies, joints, frame.parent), frame.rel)

\* BodyNode::moveTo<JointType>(parent, properties): a new joint object
\* replaces the child's parent joint, which is deleted; the child's parent
\* body node becomes parent.  The joint's coordinates start at the initial
\* positions of its properties.  (The engine refuses a move that closes a
\* chain; line 555 returns before any such move is asked for.)
MoveTo(s, child, parent, properties) ==
  LET serial == Len(s.joints) + 1
      old == s.bodies[child].joint
  IN [s EXCEPT
        !.joints = Append([s.joints EXCEPT ![old] = DeletedJoint],
                          [properties EXCEPT !.q = properties.init]),
        !.bodies = [s.bodies EXCEPT ![child].joint = serial,
                                    ![child].parent = parent]]

\* Joint::setName (line 635): the skeleton's name manager keeps joint names
\* unique
SetName(s, serial, name) ==
  [s EXCEPT !.joints[serial].name =
     IssueNewName(JointNames(s.bodies, s.joints) \ {s.joints[serial].name}, name)]

\* Joint::setTransformFromParentBodyNode
SetTransformFromParentBodyNode(s, serial, T) == [s EXCEPT !.joints[serial].Tp = T]

\* Joint::setTransformFromChildBodyNode
SetTransformFromChildBodyNode(s, serial, T) == [s EXCEPT !.joints[serial].Tc = T]

(***************************************************************************)
(* SDFFeatures.cc.  The state the functions work on is passed as a record  *)
(* s = [bodies, joints, frame, links, jointReg, shapes]: the skeleton of   *)
(* the model (body nodes and joint objects), the model frame, and the      *)
(* link, joint and shape registries (handle -> object).                    *)
(***************************************************************************)
InvalidId == 0

NullShape == [type |-> "null", dims |-> ZeroVector]

PlaneThickness == 1

\* Base::AddLink: the handle of a registered body node
AddLink(s, bn) == [s EXCEPT !.links = Append(s.links, bn)]

\* Base::AddJoint: the handle of a registered joint object
AddJoint(s, serial) == [s EXCEPT !.jointReg = Append(s.jointReg, serial)]

\* Base::AddShape
AddShape(s, node) == [s EXCEPT !.shapes = Append(s.shapes, node)]

\* a variant that keeps a negative limit as it is
infIfNegKeepsNegative(value) == value

infIfNeg(value) == IF IsNegative(value) THEN Infinity ELSE value

CopyStandardJointAxisProperties(index, properties, sdfAxis) ==
  [properties EXCEPT
     !.init[index] = sdfAxis.initialPosition,
     !.lim[index] =
       [damping |-> sdfAxis.damping,
        friction |-> sdfAxis.friction,
        rest |-> sdfAxis.springReference,
        stiffness |-> sdfAxis.springStiffness,
        posLower |-> sdfAxis.lower,
        posUpper |-> sdfAxis.upper,
        forceLower |-> Neg(infIfNeg(sdfAxis.effort)),
        forceUpper |-> infIfNeg(sdfAxis.effort),
        velLower |-> Neg(infIfNeg(sdfAxis.maxVelocity)),
        velUpper |-> infIfNeg(sdfAxis.maxVelocity)]]

GetParentModelFrame(s) == FrameWorldTransform(s.bodies, s.joints, s.frame)

ConvertJointAxis(sdfAxis, s, T_joint) ==
  IF sdfAxis.useParentModelFrame
    THEN RotVec(RotMul(RotInverse(T_joint.R), GetParentModelFrame(s).R), sdfAxis.xyz)
    ELSE sdfAxis.xyz

\* sdf::Joint::Axis(index): the axis record, or a null pointer when the
\* joint carries none at that index.  What a read through the null pointer
\* yields is not defined: garbage stands for it.
Axis(sdfJoint, index, garbage) ==
  IF index <= Len(sdfJoint.axes) THEN sdfJoint.axes[index] ELSE garbage

ConstructSingleAxisJoint(kind, s, sdfJoint, parent, child, T_joint, garbage) ==
  LET sdfAxis == Axis(sdfJoint, 1, garbage)
      properties == [DefaultJointProperties(kind) EXCEPT
                       !.axes[1] = ConvertJointAxis(sdfAxis, s, T_joint)]
  IN MoveTo(s, child, parent, CopyStandardJointAxisProperties(1, properties, sdfAxis))

ConstructUniversalJoint(s, sdfJoint, parent, child, T_joint, garbage) ==
  LET sdfAxis0 == Axis(sdfJoint, 1, garbage)
      sdfAxis1 == Axis(sdfJoint, 2, garbage)
      p0 == CopyStandardJointAxisProperties(1,
              [DefaultJointProperties("UniversalJoint") EXCEPT
                 !.axes[1] = ConvertJointAxis(sdfAxis0, s, T_joint)],
              sdfAxis0)
      p1 == CopyStandardJointAxisProperties(2,
              [p0 EXCEPT !.axes[2] = ConvertJointAxis(sdfAxis1, s, T_joint)],
              sdfAxis1)
  IN MoveTo(s, child, parent, p1)

\* ShapeAndTransform
ShapeAndTransform(shape, tf) == [shape |-> shape, tf |-> tf]

ConstructBox(box) == ShapeAndTransform([type |-> "BoxShape", dims |-> box.size], Identity)

ConstructCylinder(cylinder) ==
  ShapeAndTransform([type |-> "CylinderShape", dims |-> cylinder.size], Identity)

ConstructSphere(sphere) ==
  ShapeAndTransform([type |-> "SphereShape", dims |-> sphere.size], Identity)

\* Eigen norm and Vector3d::Length of a vector along one coordinate axis
Norm(v) == Abs(v[1]) + Abs(v[2]) + Abs(v[3])

\* std::asin in quarter turns, of a ratio that is 0 or 1
Asin(num, den) == IF num = 0 THEN 0 ELSE 1

\* axis / norm
Normalized(v, norm) == <<v[1] \div norm, v[2] \div norm, v[3] \div norm>>

ConstructPlane(plane) ==
  LET z == UnitZ
      axis == Cross(z, plane.normal)
      norm == Norm(axis)
      angle == Asin(norm, Norm(plane.normal))
      R == IF angle > 0
             THEN Isometry(AngleAxis(angle, Normalized(axis, norm)), ZeroVector)
             ELSE Identity
  IN ShapeAndTransform(
       [type |-> "BoxShape",
        dims |-> <<plane.size[1], plane.size[2], PlaneThickness>>], R)

ConstructMesh(mesh) == ShapeAndTransform(NullShape, Identity)

ConstructGeometry(geometry) ==
  CASE geometry.type = "box" -> ConstructBox(geometry)
    [] geometry.type = "cylinder" -> ConstructCylinder(geometry)
    [] geometry.type = "sphere" -> ConstructSphere(geometry)
    [] geometry.type = "plane" -> ConstructPlane(geometry)
    [] geometry.type = "mesh" -> ConstructMesh(geometry)
    [] OTHER -> ShapeAndTransform(NullShape, Identity)

ResolveSdfLinkReferenceFrame(frame, s) ==
  IF frame = "" THEN GetParentModelFrame(s) ELSE Identity

ResolveSdfJointReferenceFrame(frame, s, child) ==
  IF frame = "" THEN BodyWorldTransform(s.bodies, s.joints, child) ELSE Identity

\* lines 435-449 and 484-498: the shape node of the constructed geometry st
CreateShapeNode(aspect, s, linkID, element, st) ==
  IF st.shape = NullShape
    THEN [s |-> s, id |-> InvalidId]
    ELSE [s |-> AddShape(s, [body |-> s.links[linkID],
                             name |-> <<s.bodies[s.links[linkID]].name, aspect,
                                        element.name>>,
                             shape |-> st.shape,
                             rel |-> Mul(element.pose, st.tf),
                             tf |-> st.tf]),
          id |-> Len(s.shapes) + 1]

\* ConstructSdfCollision and ConstructSdfVisual: aspect is "collision" or
\* "visual"; the result is [s, id]
ConstructSdfShape(aspect, s, linkID, element) ==
  IF element.geom.type = "nullptr"
    THEN [s |-> s, id |-> InvalidId]
    ELSE CreateShapeNode(aspect, s, linkID, element, ConstructGeometry(element.geom))

ConstructSdfCollision(s, linkID, collision) ==
  ConstructSdfShape("collision", s, linkID, collision)

ConstructSdfVisual(s, linkID, visual) ==
  ConstructSdfShape("visual", s, linkID, visual)

RECURSIVE ConstructShapes(_, _, _, _, _)
\* the loops of lines 380-392 from element i on
ConstructShapes(aspect, s, linkID, elements, i) ==
  IF i > Len(elements)
    THEN s
    ELSE ConstructShapes(aspect,
           ConstructSdfShape(aspect, s, linkID, elements[i]).s,
           linkID, elements, i + 1)

\* a variant that moves the model frame onto the body node and keeps its
\* relative transform
ReparentModelFrameKeepsRelative(s, bn) == [s EXCEPT !.frame.parent = bn]

\* lines 369-378: the first body node becomes the canonical link; the model
\* frame moves onto it and keeps its world transform
ReparentModelFrame(s, bn) ==
  [s EXCEPT !.frame =
     [parent |-> bn,
      rel |-> Mul(Inverse(BodyWorldTransform(s.bodies, s.joints, bn)),
                  GetParentModelFrame(s))]]

\* lines 369-378
CanonicalLink(s, bn) ==
  IF Len(s.bodies) = 1 THEN ReparentModelFrame(s, bn) ELSE s

\* lines 325-362: the body node of the link under a free joint of its own,
\* at the pose tf
CreateJointAndBodyNodePair(s, sdfLink, tf) ==
  [s EXCEPT
     !.bodies = Append(s.bodies,
       [name |-> IssueNewName(BodyNames(s.bodies), sdfLink.name),
        parent |-> NullBody,
        joint |-> Len(s.joints) + 1,
        tf |-> tf,
        mass |-> sdfLink.inertial.mass,
        moment |-> MatMul(MatMul(ToMatrix(sdfLink.inertial.pose.R),
                                 sdfLink.inertial.moi),
                          ToMatrix(RotInverse(sdfLink.inertial.pose.R))),
        localCom |-> sdfLink.inertial.pose.t]),
     !.joints = Append(s.joints,
       [DefaultJointProperties("FreeJoint") EXCEPT
          !.name = IssueNewName(JointNames(s.bodies, s.joints),
                                <<sdfLink.name, "_FreeJoint">>),
          !.Q = tf])]

\* the result is [s, id]
ConstructSdfLink(s, sdfLink) ==
  [s |-> ConstructShapes("visual",
           ConstructShapes("collision",
             CanonicalLink(
               AddJoint(
                 AddLink(
                   CreateJointAndBodyNodePair(s, sdfLink,
                     Mul(ResolveSdfLinkReferenceFrame(sdfLink.frame, s),
                         sdfLink.pose)),
                   Len(s.bodies) + 1),
                 Len(s.joints) + 1),
               Len(s.bodies) + 1),
             Len(s.links) + 1, sdfLink.collisions, 1),
           Len(s.links) + 1, sdfLink.visuals, 1),
   id |-> Len(s.links) + 1]

\* a variant that finds no declared link
LinkByNameFindsNone(sdfLinks, name) == 0

\* sdf::Model::LinkByName: the index of the declared link, or 0
LinkByName(sdfLinks, name) ==
  IF \E i \in 1..Len(sdfLinks) : sdfLinks[i].name = name
    THEN CHOOSE i \in 1..Len(sdfLinks) : sdfLinks[i].name = name
    ELSE 0

\* line 521: the body node of the link that was constructed
ConstructedLink(r) == [s |-> r.s, bn |-> r.s.links[r.id]]

\* the result is [s, bn]: the state and the body node, or NullBody
FindOrConstructLink(s, sdfLinks, linkName) ==
  IF GetBodyNode(s.bodies, linkName) # NullBody
    THEN [s |-> s, bn |-> GetBodyNode(s.bodies, linkName)]
    ELSE IF LinkByName(sdfLinks, linkName) = 0
      THEN [s |-> s, bn |-> NullBody]
      ELSE ConstructedLink(
             ConstructSdfLink(s, sdfLinks[LinkByName(sdfLinks, linkName)]))

SupportedJointTypes ==
  {"BALL", "FIXED", "PRISMATIC", "REVOLUTE", "SCREW", "UNIVERSAL"}

\* line 639
ChildTPostjoint(T_child, T_joint) == Mul(Inverse(T_child), T_joint)

\* line 640
ParentTPrejointInit(T_parent, T_joint) == Mul(Inverse(T_parent), T_joint)

\* a variant that takes the joint to be at rest, where its coordinates
\* produce no transform
PrejointTPostjointAtRest(parent_T_prejoint_init, childToParent, child_T_postjoint) ==
  Identity

\* lines 646-649
PrejointTPostjoint(parent_T_prejoint_init, childToParent, child_T_postjoint) ==
  Mul(Mul(Inverse(parent_T_prejoint_init), childToParent), child_T_postjoint)

\* a variant that leaves the transform of the joint's coordinates in
ParentTPrejointFinalKeepsCoordinates(parentWorld, T_child, child_T_postjoint, prejoint_T_postjoint) ==
  Mul(Mul(Inverse(parentWorld), T_child), child_T_postjoint)

\* lines 654-658
ParentTPrejointFinal(parentWorld, T_child, child_T_postjoint, prejoint_T_postjoint) ==
  Mul(Mul(Mul(Inverse(parentWorld), T_child), child_T_postjoint),
      Inverse(prejoint_T_postjoint))

\* lines 615-618: the thread pitch of the description, when it has one
SetPitch(s, child, threadPitch) ==
  IF threadPitch.has
    THEN [s EXCEPT !.joints[s.bodies[child].joint].pitch = threadPitch.v]
    ELSE s

\* lines 576-626: the joint the dispatch on the type creates
DispatchJointType(s, sdfJoint, parent, child, T_joint, garbage) ==
  CASE sdfJoint.type = "BALL" ->
         MoveTo(s, child, parent, DefaultJointProperties("BallJoint"))
    [] sdfJoint.type = "FIXED" ->
         MoveTo(s, child, parent, DefaultJointProperties("WeldJoint"))
    [] sdfJoint.type = "PRISMATIC" ->
         ConstructSingleAxisJoint("PrismaticJoint", s, sdfJoint, parent, child,
                                  T_joint, garbage)
    [] sdfJoint.type = "REVOLUTE" ->
         ConstructSingleAxisJoint("RevoluteJoint", s, sdfJoint, parent, child,
                                  T_joint, garbage)
    [] sdfJoint.type = "SCREW" ->
         SetPitch(ConstructSingleAxisJoint("ScrewJoint", s, sdfJoint, parent, child,
                                           T_joint, garbage),
                  child, sdfJoint.threadPitch)
    [] sdfJoint.type = "UNIVERSAL" ->
         ConstructUniversalJoint(s, sdfJoint, parent, child, T_joint, garbage)

\* a variant that only sees that parent and child are the same body node
DescendsFromSelfOnly(s, parent, child) == parent = child

\* a variant that lets every joint through
DescendsFromNever(s, parent, child) == FALSE

\* line 555: _parent->descendsFrom(_child)
DescendsFrom(s, parent, child) == BodyNodeDescendsFrom(s.bodies, parent, child)

\* line 531
LinkMissing(parent, child) == parent = NullBody \/ child = NullBody

\* the number of axis records the joint type reads
AxesRead(type) ==
  CASE type \in {"PRISMATIC", "REVOLUTE", "SCREW"} -> 1
    [] type = "UNIVERSAL" -> 2
    [] OTHER -> 0

\* ConstructSdfJoint reads an axis record through a null pointer (lines 125-126
\* and 145-146)
ReadsNullAxis(s, sdfJoint, parent, child) ==
  /\ ~LinkMissing(parent, child)
  /\ ~DescendsFrom(s, parent, child)
  /\ Len(sdfJoint.axes) < AxesRead(sdfJoint.type)

\* lines 644-662: with the joint at the transforms of lines 641-642, the
\* transform its coordinates produce is measured and taken out of the
\* transform from the parent body node; the joint is registered
FinalizeJoint(s, joint, parent, child, T_child, child_T_postjoint, parent_T_prejoint_init) ==
  AddJoint(
    SetTransformFromParentBodyNode(s, joint,
      ParentTPrejointFinal(
        BodyWorldTransform(s.bodies, s.joints, parent),
        T_child,
        child_T_postjoint,
        PrejointTPostjoint(parent_T_prejoint_init,
                           GetTransform(s.bodies, s.joints, child, parent),
                           child_T_postjoint))),
    joint)

\* lines 573-662: the joint is created, named, placed and registered
CreateJoint(s, sdfJoint, parent, child, garbage, T_parent, T_child, T_joint) ==
  FinalizeJoint(
    SetTransformFromChildBodyNode(
      SetTransformFromParentBodyNode(
        SetName(DispatchJointType(s, sdfJoint, parent, child, T_joint, garbage),
                Len(s.joints) + 1, sdfJoint.name),
        Len(s.joints) + 1, ParentTPrejointInit(T_parent, T_joint)),
      Len(s.joints) + 1, ChildTPostjoint(T_child, T_joint)),
    Len(s.joints) + 1, parent, child, T_child,
    ChildTPostjoint(T_child, T_joint), ParentTPrejointInit(T_parent, T_joint))

\* the result is [s, id]
ConstructSdfJoint(s, sdfJoint, parent, child, garbage) ==
  IF LinkMissing(parent, child)
    THEN [s |-> s, id |-> InvalidId]
  ELSE IF DescendsFrom(s, parent, child)
    THEN [s |-> s, id |-> InvalidId]
  ELSE IF sdfJoint.type \notin SupportedJointTypes
    THEN [s |-> s, id |-> InvalidId]
  ELSE
    [s |-> CreateJoint(s, sdfJoint, parent, child, garbage,
                       BodyWorldTransform(s.bodies, s.joints, parent),
                       BodyWorldTransform(s.bodies, s.joints, child),
                       Mul(ResolveSdfJointReferenceFrame(sdfJoint.frame, s, child),
                           sdfJoint.pose)),
     id |-> Len(s.jointReg) + 1]

(***************************************************************************)
(* The descriptions the model draws its inputs from.                       *)
(***************************************************************************)
RotZ == AngleAxis(1, UnitZ)

RotX == AngleAxis(1, UnitX)

PoseA == Isometry(RotZ, <<1, 2, 0>>)

PoseB == Isometry(RotX, <<0, 1, 3>>)

PoseC == Isometry(IdentityRotation, <<1, 0, 0>>)

PoseJ == Isometry(RotMul(RotX, RotZ), <<0, 0, 2>>)

ModelPoses == {PoseA}

\* the pose of a link and the name of the frame it is given in
LinkPlacements == {<<PoseB, "">>, <<PoseC, "frame">>}

ShapeElement(name, geom) == [name |-> name, geom |-> geom, pose |-> PoseC]

\* the collision and visual lists of a link: a collision without a geometry
\* element, a mesh, a box; a visual with an empty geometry, a plane
Collisions ==
  <<ShapeElement("c1", [type |-> "nullptr"]),
    ShapeElement("c2", [type |-> "mesh"]),
    ShapeElement("c3", [type |-> "box", size |-> <<2, 3, 4>>])>>

Visuals ==
  <<ShapeElement("v1", [type |-> "empty"]),
    ShapeElement("v2", [type |-> "plane", normal |-> <<0, 1, 0>>, size |-> <<5, 6>>])>>

Inertial ==
  [mass |-> 2, pose |-> PoseB,
   moi |-> <<<<1, 0, 0>>, <<0, 2, 0>>, <<0, 0, 3>>>>]

SdfLinks(names) ==
  {[name |-> nm, pose |-> pl[1], frame |-> pl[2], inertial |-> Inertial,
    collisions |-> Collisions, visuals |-> Visuals] :
     nm \in names, pl \in LinkPlacements}

AxisRecord(xyz, useParentModelFrame, initialPosition, effort, maxVelocity) ==
  [xyz |-> xyz, useParentModelFrame |-> useParentModelFrame,
   initialPosition |-> initialPosition, damping |-> 3, friction |-> 1,
   springReference |-> 1, springStiffness |-> 2,
   lower |-> Finite(-1), upper |-> Finite(2),
   effort |-> effort, maxVelocity |-> maxVelocity]

AxisA == AxisRecord(UnitZ, FALSE, 1, Finite(-1), Finite(5))

AxisB == AxisRecord(UnitX, TRUE, 3, Finite(5), Finite(-1))

AxisRecords == {AxisA, AxisB}

NoPitch == [has |-> FALSE, v |-> 0]

Pitch(v) == [has |-> TRUE, v |-> v]

JointKind(type, axes, threadPitch, frame) ==
  [type |-> type, axes |-> axes, threadPitch |-> threadPitch, frame |-> frame]

\* the joints a description declares: the type, the axis records, the thread
\* pitch and the name of the frame the pose is given in
JointKinds ==
  {JointKind("GEARBOX", <<>>, NoPitch, ""),
   JointKind("BALL", <<>>, NoPitch, "frame"),
   JointKind("FIXED", <<>>, NoPitch, ""),
   JointKind("PRISMATIC", <<AxisB>>, NoPitch, ""),
   JointKind("REVOLUTE", <<>>, NoPitch, ""),
   JointKind("REVOLUTE", <<AxisA>>, NoPitch, ""),
   JointKind("REVOLUTE", <<AxisB>>, NoPitch, "frame"),
   JointKind("SCREW", <<AxisA>>, Pitch(2), ""),
   JointKind("SCREW", <<AxisB>>, NoPitch, "frame"),
   JointKind("UNIVERSAL", <<AxisA>>, NoPitch, ""),
   JointKind("UNIVERSAL", <<AxisA, AxisB>>, NoPitch, "")}

SdfJoint(pn, cn, k) ==
  [name |-> <<0, "joint">>, parent |-> pn, child |-> cn, type |-> k.type,
   pose |-> PoseJ, frame |-> k.frame, axes |-> k.axes,
   threadPitch |-> k.threadPitch]

SdfJoints(pn, cn) == {SdfJoint(pn, cn, k) : k \in JointKinds}

(***************************************************************************)
(* State.                                                                  *)
(***************************************************************************)
VARIABLES
  pc,        \* where the build stands: "world", "links", "joints", "done",
             \* "crashed"; "api" when a client calls the model's functions
  n,         \* entries of the description read (calls made) so far
  sdfPose,   \* the pose the description of the model declares
  sdfLinks,  \* the links the description of the model declares
  bodies,    \* the skeleton's body nodes
  joints,    \* the joint objects by serial number
  frame,     \* the model frame
  links,     \* link registry: handle -> body node
  jointReg,  \* joint registry: handle -> joint object
  shapes,    \* shape registry
  first,     \* link name -> the body node FindOrConstructLink returned first
  last       \* the last call: what it was given and what it returned

vars == <<pc, n, sdfPose, sdfLinks, bodies, joints, frame, links, jointReg, shapes, first, last>>

S == [bodies |-> bodies, joints |-> joints, frame |-> frame, links |-> links,
      jointReg |-> jointReg, shapes |-> shapes]

Store(s) ==
  /\ bodies' = s.bodies
  /\ joints' = s.joints
  /\ frame' = s.frame
  /\ links' = s.links
  /\ jointReg' = s.jointReg
  /\ shapes' = s.shapes

\* link names; the last one is never declared
UndeclaredName == MaxEntities + MaxCalls

LinkNames == 1..UndeclaredName

\* the joint types section 6 of the specification lists as supported
ListedJointTypes == {"BALL", "FIXED", "PRISMATIC", "REVOLUTE", "SCREW", "UNIVERSAL"}

\* a call: the link names it was given, whether the joint type it was given
\* is a listed one, the body nodes the names resolved to, the handle it
\* returned; for a call of ConstructSdfJoint that constructed a joint also
\* the name and the type the joint declares
Call(op, pname, cname, type, parent, child, id) ==
  [op |-> op, pname |-> pname, cname |-> cname, listed |-> type \in ListedJointTypes,
   parent |-> parent, child |-> child, id |-> id, name |-> <<0, "">>, type |-> ""]

\* a call of ConstructSdfJoint and what it returned
CallOfConstructSdfJoint(sdfJoint, parent, child, id) ==
  [Call("ConstructSdfJoint", sdfJoint.parent, sdfJoint.child, sdfJoint.type,
        parent, child, id)
     EXCEPT !.name = IF id = InvalidId THEN <<0, "">> ELSE sdfJoint.name,
            !.type = IF id = InvalidId THEN "" ELSE sdfJoint.type]

NoCall(op) == Call(op, 0, 0, "FIXED", NullBody, NullBody, InvalidId)

\* lines 273-282: an empty skeleton and the model frame at the model's pose
NewModel(pose) ==
  [bodies |-> <<>>, joints |-> <<>>, frame |-> [parent |-> NullBody, rel |-> pose],
   links |-> <<>>, jointReg |-> <<>>, shapes |-> <<>>]

NoModel == NewModel(Identity)

Remember(f, name, bn) == IF f[name] = NullBody THEN [f EXCEPT ![name] = bn] ELSE f

Holds(s) ==
  /\ bodies = s.bodies
  /\ joints = s.joints
  /\ frame = s.frame
  /\ links = s.links
  /\ jointReg = s.jointReg
  /\ shapes = s.shapes

NothingResolved == [x \in LinkNames |-> NullBody]

(***************************************************************************)
(* ConstructSdfWorld, one iteration of its loops at a time.                *)
(***************************************************************************)
Init ==
  /\ pc = "world"
  /\ n = 0
  /\ sdfPose = Identity
  /\ sdfLinks = <<>>
  /\ Holds(NoModel)
  /\ first = NothingResolved
  /\ last = NoCall("ConstructSdfWorld")

\* lines 257-260: a null model entry is skipped
SkipNullModel ==
  /\ pc = "world"
  /\ n < MaxEntities
  /\ n' = n + 1
  /\ last' = NoCall("SkipNullModel")
  /\ UNCHANGED <<pc, sdfPose, sdfLinks, bodies, joints, frame, links, jointReg, shapes, first>>

\* lines 262, 273-285: ConstructSdfModel is entered
ConstructSdfModel ==
  /\ pc = "world"
  /\ n < MaxEntities
  /\ \E pose \in ModelPoses : sdfPose' = pose /\ Store(NewModel(pose))
  /\ pc' = "links"
  /\ n' = n + 1
  /\ sdfLinks' = <<>>
  /\ first' = NothingResolved
  /\ last' = NoCall("ConstructSdfModel")

\* line 265: every model was visited
ConstructSdfWorldReturn ==
  /\ pc = "world"
  /\ pc' = "done"
  /\ last' = NoCall("ConstructSdfWorldReturn")
  /\ UNCHANGED <<n, sdfPose, sdfLinks, bodies, joints, frame, links, jointReg, shapes, first>>

\* line 291: what FindOrConstructLink returned
LinkResolved(linkName, r) ==
  /\ Store(r.s)
  /\ first' = Remember(first, linkName, r.bn)
  /\ last' = Call("FindOrConstructLink", 0, linkName, "FIXED", NullBody, r.bn, InvalidId)

\* lines 288-292: the next declared link
LinkPass ==
  /\ pc = "links"
  /\ n < MaxEntities
  /\ \E sdfLink \in SdfLinks({Len(sdfLinks) + 1}) :
       /\ sdfLinks' = Append(sdfLinks, sdfLink)
       /\ LinkResolved(sdfLink.name,
            FindOrConstructLink(S, Append(sdfLinks, sdfLink), sdfLink.name))
  /\ n' = n + 1
  /\ UNCHANGED <<pc, sdfPose>>

\* line 288: LinkCount is reached
LinkPassEnd ==
  /\ pc = "links"
  /\ pc' = "joints"
  /\ last' = NoCall("LinkPassEnd")
  /\ UNCHANGED <<n, sdfPose, sdfLinks, bodies, joints, frame, links, jointReg, shapes, first>>

\* lines 298-305: a null joint entry is skipped
SkipNullJoint ==
  /\ pc = "joints"
  /\ n < MaxEntities
  /\ n' = n + 1
  /\ last' = NoCall("SkipNullJoint")
  /\ UNCHANGED <<pc, sdfPose, sdfLinks, bodies, joints, frame, links, jointReg, shapes, first>>

DeclaredNames == {sdfLinks[i].name : i \in 1..Len(sdfLinks)}

\* what stands for the read through a null axis pointer
Garbage(reads) == IF reads THEN AxisRecords ELSE {AxisA}

\* a variant that leaves the loop when ConstructSdfJoint fails
AfterConstructSdfJointReturnsOnFailure(id) ==
  IF id = InvalidId THEN "world" ELSE "joints"

\* line 313: the result of ConstructSdfJoint is dropped and the loop goes on
AfterConstructSdfJoint(id) == "joints"

\* the read through a null axis pointer stops the process
Crash(s, sdfJoint, parent, child) ==
  /\ ReadsNullAxis(s, sdfJoint, parent, child)
  /\ Store(s)
  /\ last' = Call("crash", sdfJoint.parent, sdfJoint.child, sdfJoint.type, parent,
                  child, InvalidId)
  /\ pc' = "crashed"

\* line 313: what ConstructSdfJoint returned
JointConstructed(sdfJoint, parent, child, r) ==
  /\ Store(r.s)
  /\ last' = CallOfConstructSdfJoint(sdfJoint, parent, child, r.id)
  /\ pc' = AfterConstructSdfJoint(r.id)

\* line 313: the joint between the resolved links
ConstructJointBetween(s, sdfJoint, parent, child) ==
  \/ \E garbage \in Garbage(ReadsNullAxis(s, sdfJoint, parent, child)) :
       JointConstructed(sdfJoint, parent, child,
                        ConstructSdfJoint(s, sdfJoint, parent, child, garbage))
  \/ Crash(s, sdfJoint, parent, child)

\* lines 310-311: the child link is resolved after the parent link
ResolveChild(pn, cn, rp, rc) ==
  /\ first' = Remember(Remember(first, pn, rp.bn), cn, rc.bn)
  /\ \E sdfJoint \in SdfJoints(pn, cn) :
       ConstructJointBetween(rc.s, sdfJoint, rp.bn, rc.bn)

\* lines 307-308: the parent link is resolved
ResolveParent(pn, cn, rp) ==
  ResolveChild(pn, cn, rp, FindOrConstructLink(rp.s, sdfLinks, cn))

\* lines 307-313: the next joint
JointPass ==
  /\ pc = "joints"
  /\ n < MaxEntities
  /\ \E pn \in DeclaredNames \cup {UndeclaredName} :
     \E cn \in DeclaredNames \cup {UndeclaredName} :
       ResolveParent(pn, cn, FindOrConstructLink(S, sdfLinks, pn))
  /\ n' = n + 1
  /\ UNCHANGED <<sdfPose, sdfLinks>>

\* line 316: JointCount is reached
ConstructSdfModelReturn ==
  /\ pc = "joints"
  /\ pc' = "world"
  /\ last' = NoCall("ConstructSdfModelReturn")
  /\ UNCHANGED <<n, sdfPose, sdfLinks, bodies, joints, frame, links, jointReg, shapes, first>>

(***************************************************************************)
(* A client that calls ConstructSdfLink and ConstructSdfJoint on a model,  *)
(* in any order.                                                           *)
(***************************************************************************)
\* the links a client declares lie at one of two poses in turn
ApiLink(name) ==
  [name |-> name, pose |-> IF name % 2 = 1 THEN PoseB ELSE PoseC,
   frame |-> "", inertial |-> Inertial,
   collisions |-> <<>>, visuals |-> <<>>]

ApiJointKinds ==
  {JointKind("GEARBOX", <<>>, NoPitch, ""),
   JointKind("FIXED", <<>>, NoPitch, ""),
   JointKind("REVOLUTE", <<AxisA>>, NoPitch, ""),
   JointKind("REVOLUTE", <<>>, NoPitch, "")}

\* the names a client gives a joint: a name after the child link, which no
\* other joint of the model carries; for a fixed joint also the name of the
\* free joint of the parent link (line 347)
ApiJointNames(pn, cn, type) ==
  IF type = "FIXED" THEN {<<cn, "joint">>, <<pn, "_FreeJoint">>} ELSE {<<cn, "joint">>}

ApiJoints(pn, cn) ==
  UNION {{[SdfJoint(pn, cn, k) EXCEPT !.name = nm] : nm \in ApiJointNames(pn, cn, k.type)} :
           k \in ApiJointKinds}

\* a model without links and joints, as ConstructSdfModel returns it
InitApi ==
  /\ pc = "api"
  /\ n = 0
  /\ sdfPose \in ModelPoses
  /\ sdfLinks = <<>>
  /\ Holds(NewModel(sdfPose))
  /\ first = NothingResolved
  /\ last = NoCall("ConstructSdfModel")

\* line 394: what ConstructSdfLink returned
LinkConstructed(linkName, r) ==
  /\ Store(r.s)
  /\ last' = Call("ConstructSdfLink", 0, linkName, "FIXED", NullBody, r.s.links[r.id],
                  r.id)

\* lines 320-395; the client gives every link a new name
ApiConstructSdfLink ==
  /\ pc = "api"
  /\ n < MaxCalls
  /\ LinkConstructed(Len(bodies) + 1, ConstructSdfLink(S, ApiLink(Len(bodies) + 1)))
  /\ n' = n + 1
  /\ UNCHANGED <<pc, sdfPose, sdfLinks, first>>

\* line 409: what ConstructSdfJoint returned
ApiJointConstructed(sdfJoint, parent, child, r) ==
  /\ Store(r.s)
  /\ last' = CallOfConstructSdfJoint(sdfJoint, parent, child, r.id)
  /\ pc' = "api"

\* line 409: the joint between the body nodes of the named links
ApiConstructJointBetween(s, sdfJoint, parent, child) ==
  \/ \E garbage \in Garbage(ReadsNullAxis(s, sdfJoint, parent, child)) :
       ApiJointConstructed(sdfJoint, parent, child,
                           ConstructSdfJoint(s, sdfJoint, parent, child, garbage))
  \/ Crash(s, sdfJoint, parent, child)

\* lines 398-410
ApiConstructSdfJoint ==
  /\ pc = "api"
  /\ n < MaxCalls
  /\ \E pn \in 1..(Len(bodies) + 1), cn \in 1..(Len(bodies) + 1) :
       \E sdfJoint \in ApiJoints(pn, cn) :
         ApiConstructJointBetween(S, sdfJoint, GetBodyNode(bodies, pn),
                                  GetBodyNode(bodies, cn))
  /\ n' = n + 1
  /\ UNCHANGED <<sdfPose, sdfLinks, first>>

NextApi == ApiConstructSdfLink \/ ApiConstructSdfJoint

SpecApi == InitApi /\ [][NextApi]_vars

Next ==
  \/ SkipNullModel
  \/ ConstructSdfModel
  \/ ConstructSdfWorldReturn
  \/ LinkPass
  \/ LinkPassEnd
  \/ SkipNullJoint
  \/ JointPass
  \/ ConstructSdfModelReturn

Spec == Init /\ [][Next]_vars

(***************************************************************************)
(* CopyStandardJointAxisProperties on axis records of any limits.          *)
(***************************************************************************)
Doubles == {Neg(Infinity), Finite(-5), Finite(-1), Finite(0), Finite(5), Infinity}

AxisCall(index, sdfAxis) ==
  [op |-> "CopyStandardJointAxisProperties", index |-> index, sdfAxis |-> sdfAxis,
   properties |-> CopyStandardJointAxisProperties(
                    index, DefaultJointProperties("UniversalJoint"), sdfAxis)]

InitAxis ==
  /\ pc = "axis"
  /\ n = 0
  /\ sdfPose = Identity
  /\ sdfLinks = <<>>
  /\ Holds(NoModel)
  /\ first = NothingResolved
  /\ last = AxisCall(1, AxisA)

\* lines 68-86, for axis 0 or axis 1 of a joint
CopyAxis ==
  /\ pc = "axis"
  /\ \E index \in 1..2, effort \in Doubles, maxVelocity \in Doubles,
        lower \in {Neg(Infinity), Finite(-1)}, upper \in {Finite(5), Infinity} :
       last' = AxisCall(index, [AxisA EXCEPT !.effort = effort,
                                             !.maxVelocity = maxVelocity,
                                             !.lower = lower, !.upper = upper])
  /\ UNCHANGED <<pc, n, sdfPose, sdfLinks, bodies, joints, frame, links, jointReg,
                 shapes, first>>

NextAxis == CopyAxis

SpecAxis == InitAxis /\ [][NextAxis]_vars

(***************************************************************************)
(* ConstructPlane on planes of any normal along a coordinate axis.         *)
(***************************************************************************)
\* the normals that are not zero: up and down, left and right, forth and
\* back, of any length
PlaneNormals ==
  {VecScale(k, e) : k \in (-MaxLength..MaxLength) \ {0}, e \in {UnitX, UnitY, UnitZ}}

PlaneSizes == {<<w, h>> : w \in 1..MaxLength, h \in 1..MaxLength}

PlaneCall(normal, size) ==
  [op |-> "ConstructPlane", normal |-> normal, size |-> size,
   result |-> ConstructPlane([type |-> "plane", normal |-> normal, size |-> size])]

InitPlane ==
  /\ pc = "plane"
  /\ n = 0
  /\ sdfPose = Identity
  /\ sdfLinks = <<>>
  /\ Holds(NoModel)
  /\ first = NothingResolved
  /\ last = PlaneCall(UnitZ, <<1, 1>>)

\* lines 185-207
BuildPlane ==
  /\ pc = "plane"
  /\ \E normal \in PlaneNormals, size \in PlaneSizes : last' = PlaneCall(normal, size)
  /\ UNCHANGED <<pc, n, sdfPose, sdfLinks, bodies, joints, frame, links, jointReg,
                 shapes, first>>

NextPlane == BuildPlane

SpecPlane == InitPlane /\ [][NextPlane]_vars

(***************************************************************************)
(* Properties.                                                             *)
(***************************************************************************)
Bodies == 1..Len(bodies)

World(b) == BodyWorldTransform(bodies, joints, b)

RECURSIVE Up(_, _, _)
\* the body node k parent joints above b, or NullBody
Up(bs, b, k) == IF b = NullBody \/ k = 0 THEN b ELSE Up(bs, bs[b].parent, k - 1)

\* b and the body nodes above it
Chain(bs, b) == {Up(bs, b, k) : k \in 0..Len(bs)} \ {NullBody}

JointCall == last.op \in {"ConstructSdfJoint", "crash"}

\* the world pose of b with the coordinates of its parent joint at the
\* initial positions the joint declares
PoseAtInitialPositions(b) ==
  BodyWorldTransform(
    bodies,
    [joints EXCEPT ![bodies[b].joint].q = joints[bodies[b].joint].init],
    b)

\* C1: round-trip pose.  Every body that is the child of a constructed joint
\* (fixed, ball, revolute, prismatic, screw, universal) has, with the
\* coordinates of the joint at the declared initial position, the world pose
\* the description declared for its link.
C1_RoundTripPose ==
  \A b \in Bodies :
    joints[bodies[b].joint].kind # "FreeJoint"
      => PoseAtInitialPositions(b) = bodies[b].tf

\* a revolute joint of initial position 1 (the engine's default is 0) was
\* constructed over a child that does not sit at its parent
C1_Witness ==
  /\ last.op = "ConstructSdfJoint"
  /\ last.id # InvalidId
  /\ joints[jointReg[last.id]].kind = "RevoluteJoint"
  /\ joints[jointReg[last.id]].init[1] = 1
  /\ joints[jointReg[last.id]].q[1] = 1
  /\ World(last.child) # World(last.parent)

\* C2: closed-loop rejection.  A call of ConstructSdfJoint whose parent body
\* descends from its child body (or is the child body) returns the invalid
\* handle and leaves every body's parent body and parent joint, every body's
\* world pose and the joint registry as they were.
C2_ClosedLoopRejection ==
  [][(/\ last'.op \in {"ConstructSdfJoint", "crash"}
      /\ last'.parent # NullBody
      /\ last'.child # NullBody
      /\ last'.child \in Chain(bodies, last'.parent))
       => /\ last'.op = "ConstructSdfJoint"
          /\ last'.id = InvalidId
          /\ bodies' = bodies
          /\ joints' = joints
          /\ jointReg' = jointReg
          /\ \A b \in Bodies :
               BodyWorldTransform(bodies', joints', b) = World(b)]_vars

\* a joint from a body to the body above it was rejected
C2_Witness ==
  /\ last.op = "ConstructSdfJoint"
  /\ last.parent # NullBody
  /\ last.child # NullBody
  /\ last.parent # last.child
  /\ last.child \in Chain(bodies, last.parent)
  /\ last.id = InvalidId

\* C3: tree invariant.  After any sequence of link and joint constructions
\* every body has one parent, the world or another body of the model, under
\* a parent joint of its own, and no body is its own ancestor.
C3_TreeInvariant ==
  /\ \A b \in Bodies :
       /\ bodies[b].parent \in ({NullBody} \cup Bodies) \ {b}
       /\ Up(bodies, b, Len(bodies)) = NullBody
       /\ joints[bodies[b].joint].kind # "deleted"
  /\ \A b1 \in Bodies, b2 \in Bodies :
       bodies[b1].joint = bodies[b2].joint => b1 = b2

\* three bodies in a chain, after a joint was rejected
C3_Witness ==
  /\ \E b \in Bodies : Up(bodies, b, 2) # NullBody
  /\ \E h \in 1..Len(jointReg) : joints[jointReg[h]].kind = "RevoluteJoint"
  /\ Len(bodies) = 3

\* C4: idempotent link resolution.  Every call of FindOrConstructLink for a
\* name returns the body the first call for that name returned, from the
\* link pass and from a joint's parent and child references alike; the model
\* holds one body per declared link name and no other body; a name that is
\* not declared resolves to no body.
C4_IdempotentLinkResolution ==
  /\ last.op = "FindOrConstructLink" => last.child = first[last.cname]
  /\ JointCall => /\ last.parent = first[last.pname]
                  /\ last.child = first[last.cname]
  /\ \A x \in LinkNames :
       IF x \in DeclaredNames
         THEN /\ first[x] \in Bodies
              /\ bodies[first[x]].name = <<x, 0>>
         ELSE first[x] = NullBody
  /\ Len(bodies) = Len(sdfLinks)
  /\ \A b \in Bodies : bodies[b].name[1] \in DeclaredNames /\ bodies[b].name[2] = 0
  /\ \A b1 \in Bodies, b2 \in Bodies : bodies[b1].name = bodies[b2].name => b1 = b2

\* a joint resolved its parent and child to the bodies of the link pass, and
\* another joint named a link that is not declared
C4_Witness ==
  /\ last.op = "ConstructSdfJoint"
  /\ last.pname = UndeclaredName
  /\ last.parent = NullBody
  /\ last.child # NullBody
  /\ \E h \in 1..Len(jointReg) : joints[jointReg[h]].kind # "FreeJoint"
  /\ Len(bodies) = 2

\* C5: links before joints.  When ConstructSdfJoint is invoked, the parent
\* and the child it is given are the bodies of the links the joint names,
\* whenever the model declares those links.
C5_LinksBeforeJoints ==
  JointCall =>
    /\ last.pname \in DeclaredNames
         => /\ last.parent \in Bodies
            /\ bodies[last.parent].name = <<last.pname, 0>>
    /\ last.cname \in DeclaredNames
         => /\ last.child \in Bodies
            /\ bodies[last.child].name = <<last.cname, 0>>

\* a joint between the second and the first declared link was constructed
C5_Witness ==
  /\ last.op = "ConstructSdfJoint"
  /\ last.pname = 2
  /\ last.cname = 1
  /\ last.id # InvalidId
  /\ bodies[1].parent = 2

\* C6: the build always completes.  Whatever the description holds,
\* ConstructSdfWorld is at work in one of its loops, where it visits the
\* next entry or leaves the loop, or it has returned: nothing stops it.
C6_BuildCompletes == pc \in {"world", "links", "joints", "done"}

\* C7: aborted joints are no-ops.  A joint whose parent or child body is
\* missing, or whose type is not fixed, ball, revolute, prismatic, screw or
\* universal, makes ConstructSdfJoint return the invalid handle; the bodies,
\* their parent joints, their world poses and the joint registry stay as
\* they were, and ConstructSdfModel goes on to the joints that follow.
C7_AbortedJointsAreNoOps ==
  [][(/\ last'.op \in {"ConstructSdfJoint", "crash"}
      /\ pc = "joints"
      /\ \/ last'.parent = NullBody
         \/ last'.child = NullBody
         \/ ~last'.listed)
       => /\ last'.op = "ConstructSdfJoint"
          /\ last'.id = InvalidId
          /\ bodies' = bodies
          /\ joints' = joints
          /\ jointReg' = jointReg
          /\ \A b \in Bodies :
               BodyWorldTransform(bodies', joints', b) = World(b)
          /\ pc' = "joints"
          /\ n' = n + 1]_vars

\* a joint of a type that is not supported was aborted between two bodies,
\* after a joint had been constructed
C7_Witness ==
  /\ last.op = "ConstructSdfJoint"
  /\ ~last.listed
  /\ last.parent # NullBody
  /\ last.child # NullBody
  /\ last.parent # last.child
  /\ last.id = InvalidId
  /\ pc = "joints"
  /\ \E b \in Bodies : joints[bodies[b].joint].kind = "FreeJoint"
  /\ \E b \in Bodies : joints[bodies[b].joint].kind # "FreeJoint"

\* the limits a declared bound d stands for
LimitsOf(d) ==
  IF d.v < 0
    THEN <<[inf |-> TRUE, v |-> -1], [inf |-> TRUE, v |-> 1]>>
    ELSE <<[inf |-> d.inf, v |-> -d.v], d>>

\* C8: limit convention.  A declared effort e < 0 gives the force limits
\* (-infinity, +infinity), e >= 0 gives (-e, +e); the declared maximal
\* velocity gives the velocity limits by the same rule; the lower limit is
\* the negation of the upper limit; the position limits are the declared
\* ones.
C8_LimitConvention ==
  last.op = "CopyStandardJointAxisProperties" =>
    /\ <<last.properties.lim[last.index].forceLower,
         last.properties.lim[last.index].forceUpper>> = LimitsOf(last.sdfAxis.effort)
    /\ <<last.properties.lim[last.index].velLower,
         last.properties.lim[last.index].velUpper>>
         = LimitsOf(last.sdfAxis.maxVelocity)
    /\ last.properties.lim[last.index].forceLower.v
         = -last.properties.lim[last.index].forceUpper.v
    /\ last.properties.lim[last.index].velLower.v
         = -last.properties.lim[last.index].velUpper.v
    /\ last.properties.lim[last.index].posLower = last.sdfAxis.lower
    /\ last.properties.lim[last.index].posUpper = last.sdfAxis.upper

\* the second axis with effort -1 and maximal velocity 5
C8_Witness ==
  /\ last.op = "CopyStandardJointAxisProperties"
  /\ last.index = 2
  /\ last.sdfAxis.effort = Finite(-1)
  /\ last.sdfAxis.maxVelocity = Finite(5)
  /\ last.properties.lim[2].forceLower = Neg(Infinity)
  /\ last.properties.lim[2].velLower = Finite(-5)

\* C9: model frame invariant.  The model frame is attached to the world
\* while the model has no body and to the first body from then on; its world
\* pose is the pose the description declares for the model, throughout; so
\* every link declared with an empty pose frame lies at the model's pose
\* times the link's pose.
C9_ModelFrameInvariant ==
  /\ frame.parent = IF Len(bodies) = 0 THEN NullBody ELSE 1
  /\ FrameWorldTransform(bodies, joints, frame) = sdfPose
  /\ \A i \in 1..Len(sdfLinks) :
       sdfLinks[i].frame = ""
         => \E b \in Bodies :
              /\ bodies[b].name = <<sdfLinks[i].name, 0>>
              /\ World(b) = Mul(sdfPose, sdfLinks[i].pose)

\* the first body became the child of a joint, and the link declared after
\* it has an empty pose frame
C9_Witness ==
  /\ Len(bodies) >= 2
  /\ bodies[1].parent = 2
  /\ sdfLinks[2].frame = ""
  /\ frame.rel # sdfPose
  /\ last.op = "ConstructSdfJoint"

\* a call of ConstructSdfJoint fails when a body is missing, when the parent
\* descends from the child, or when the type is not a supported one
Failed ==
  \/ last.parent = NullBody
  \/ last.child = NullBody
  \/ ~last.listed
  \/ last.id = InvalidId /\ last.child \in Chain(bodies, last.parent)

\* C10: handles stay resolvable.  Every registered joint handle resolves to
\* a joint that is the parent joint of a body of the model, every link
\* handle to a body of the model, and ConstructSdfJoint returns the invalid
\* handle for the constructions that failed and for no other.
C10_HandlesStayResolvable ==
  /\ \A h \in 1..Len(jointReg) :
       /\ joints[jointReg[h]].kind # "deleted"
       /\ \E b \in Bodies : bodies[b].joint = jointReg[h]
  /\ \A h \in 1..Len(links) : links[h] \in Bodies
  /\ last.op = "ConstructSdfJoint" => (last.id = InvalidId <=> Failed)

\* the kind of joint of the engine a declared joint type stands for
EngineKindOf(type) ==
  CASE type = "BALL" -> "BallJoint"
    [] type = "FIXED" -> "WeldJoint"
    [] type = "PRISMATIC" -> "PrismaticJoint"
    [] type = "REVOLUTE" -> "RevoluteJoint"
    [] type = "SCREW" -> "ScrewJoint"
    [] type = "UNIVERSAL" -> "UniversalJoint"
    [] OTHER -> "none"

\* the joint objects of js that are in the body graph
JointsInGraph(js) == {j \in 1..Len(js) : js[j].kind # "deleted"}

\* C11: joint attachment replaces the child's parent joint.  After every
\* successful call of ConstructSdfJoint the child's parent body is the
\* declared parent, the child's one parent joint is the joint the call
\* built and registered, of the declared kind and carrying the declared
\* name, and the joint that attached the child before is no longer in the
\* graph; the model always has as many joints as bodies.
C11_JointAttachment ==
  [][/\ Cardinality(JointsInGraph(joints')) = Len(bodies')
     /\ (last'.op = "ConstructSdfJoint" /\ last'.id # InvalidId)
          => /\ bodies'[last'.child].parent = last'.parent
             /\ bodies'[last'.child].joint = jointReg'[last'.id]
             /\ \A b \in 1..Len(bodies') :
                  bodies'[b].joint = bodies'[last'.child].joint => b = last'.child
             /\ joints'[bodies'[last'.child].joint].kind = EngineKindOf(last'.type)
             /\ bodies'[last'.child].joint # bodies[last'.child].joint
             /\ joints'[bodies[last'.child].joint].kind = "deleted"
             /\ joints'[bodies'[last'.child].joint].name = <<last'.name, 0>>]_vars

\* C12: plane orientation.  For every plane with a normal n that is not
\* zero, also one that points down, ConstructPlane returns a box of the
\* declared length and width and of the thickness 1e-4, and a rotation R
\* that turns the up-axis (0, 0, 1) into the direction of n; when n points
\* up, where the cross product with the up-axis is zero, R is the identity.
C12_PlaneOrientation ==
  last.op = "ConstructPlane" =>
    /\ last.result.shape.type = "BoxShape"
    /\ last.result.shape.dims = <<last.size[1], last.size[2], PlaneThickness>>
    /\ last.result.tf.t = ZeroVector
    /\ VecScale(Abs(last.normal[1]) + Abs(last.normal[2]) + Abs(last.normal[3]),
                RotVec(last.result.tf.R, UnitZ)) = last.normal
    /\ (last.normal[1] = 0 /\ last.normal[2] = 0 /\ last.normal[3] > 0)
         => last.result.tf = Identity

\* C13: joint construction moves nothing.  After every successful call of
\* ConstructSdfJoint, with the new joint at the coordinates it has then,
\* every body of the model (the parent, the child, the bodies below the
\* child, the bodies apart from them) has the world pose it had before the
\* call; the final parent-to-prejoint transform, which the code computes
\* from the parent's world pose read after the re-attachment, is the one
\* that the parent's and the child's world poses before the call give.
C13_ConstructionMovesNothing ==
  [][(last'.op = "ConstructSdfJoint" /\ last'.id # InvalidId)
       => /\ Len(bodies') = Len(bodies)
          /\ \A b \in Bodies : BodyWorldTransform(bodies', joints', b) = World(b)
          /\ \A parent \in {last'.parent}, child \in {last'.child} :
             \A joint \in {joints'[jointReg'[last'.id]]} :
               joint.Tp = Mul(Mul(Mul(Inverse(World(parent)), World(child)), joint.Tc),
                              Inverse(JointTransform(joint)))]_vars

\* a revolute joint, at a coordinate that is not zero, was constructed over
\* a child that has a body below it and lies apart from its parent; the
\* child and the body below it are where their links were declared
C13_Witness ==
  /\ last.op = "ConstructSdfJoint"
  /\ last.id # InvalidId
  /\ joints[jointReg[last.id]].kind = "RevoluteJoint"
  /\ joints[jointReg[last.id]].q[1] # 0
  /\ JointTransform(joints[jointReg[last.id]]) # Identity
  /\ World(last.child) # World(last.parent)
  /\ World(last.child) = bodies[last.child].tf
  /\ \E b \in Bodies :
       /\ bodies[b].parent = last.child
       /\ World(b) = bodies[b].tf
       /\ World(b) # World(last.child)


====
